---- MODULE Spec2Model ----
(***************************************************************************)
(* A model of retro-wave/src/RetroWaveVisualizer.tsx: the useAudioBands    *)
(* hook (capture sessions, their asynchronous init, the extraction tick    *)
(* loop and the effect cleanup), the averageBand reduction, and the frame  *)
(* callbacks that consume the shared AudioBands value.                     *)
(*                                                                         *)
(* Numbers: JavaScript numbers are modelled as exact rationals, records    *)
(* [n |-> numerator, d |-> denominator] in lowest terms with d > 0, so     *)
(* equality of two values is equality of records.  Rounding of IEEE        *)
(* doubles is not modelled.                                                *)
(***************************************************************************)
EXTENDS Integers, Sequences, FiniteSets, TLC

\* ---------------------------------------------------------------- bounds

\* Capture sessions (effect runs with enabled = true) in one behaviour.
MaxSessions == 2

\* Handles requestAnimationFrame issues in one behaviour; every extraction
\* tick requests one, so this also bounds the number of extraction ticks.
MaxFrameId == 2

\* Ticks of the extraction loop followed when one session runs on its own.
MaxLoopTicks == 10

\* Frames the scene renders in one behaviour.
MaxRenderFrames == 2

\* Renders of ValleyRanges after its first, and the calls of
\* createRidgeShape observed on their own.
MaxRerenders == 1
MaxShapeCalls == 2

\* The longest frequency buffer, and the largest start / end, of the
\* averageBand calls checked on their own.
MaxBufLen == 3
MaxIndex == 4

\* --------------------------------------------------------------- numbers

RECURSIVE GCD(_, _)
GCD(a, b) == IF b = 0 THEN a ELSE GCD(b, a % b)

Abs(x) == IF x < 0 THEN -x ELSE x

\* The rational n/d (d # 0) in lowest terms with a positive denominator.
Rat(n, d) ==
  LET g == GCD(Abs(n), Abs(d))
      s == IF d < 0 THEN -1 ELSE 1
  IN  [n |-> (s * n) \div g, d |-> (s * d) \div g]

Zero == [n |-> 0, d |-> 1]
One == [n |-> 1, d |-> 1]

RAdd(x, y) ==
  LET g == GCD(x.d, y.d)
  IN  Rat(x.n * (y.d \div g) + y.n * (x.d \div g), (x.d \div g) * y.d)

RNeg(x) == [n |-> -x.n, d |-> x.d]
RSub(x, y) == RAdd(x, RNeg(y))
RMul(x, y) ==
  LET g1 == GCD(Abs(x.n), y.d)
      g2 == GCD(Abs(y.n), x.d)
      h1 == IF g1 = 0 THEN 1 ELSE g1
      h2 == IF g2 = 0 THEN 1 ELSE g2
  IN  Rat((x.n \div h1) * (y.n \div h2), (x.d \div h2) * (y.d \div h1))
RLe(x, y) == x.n * y.d <= y.n * x.d
RLt(x, y) == x.n * y.d < y.n * x.d
RAbs(x) == [n |-> Abs(x.n), d |-> x.d]

RECURSIVE RPow(_, _)
RPow(x, k) == IF k = 0 THEN One ELSE RMul(x, RPow(x, k - 1))

\* ------------------------------------------------------ program constants

\* analyser.fftSize; frequencyBinCount, the length of frequencyBuffer, is
\* half of it.
fftSize == 512
frequencyBinCount == fftSize \div 2

\* The largest value of a Uint8Array element.
ByteMax == 255

\* The bin windows tick passes to averageBand.
BassStart == 0
BassEnd == 14
MidStart == 18
MidEnd == 70
TrebleStart == 90
TrebleEnd == 180

\* The factor of the three lerp calls of tick, 0.2.
SmoothFactor == Rat(2, 10)

\* Array.from({ length: 5 }) of ValleyRanges.
LayerCount == 5

EMPTY_BANDS == [bass |-> Zero, mid |-> Zero, treble |-> Zero]

AudioModes == {"mic", "tab"}

\* The value of useState<string | null>(null).
NoError == "null"

\* What init's catch clause can catch: an Error with a message, or a value
\* that is not an Error.
Caught ==
  { [isError |-> TRUE, message |-> "Permission denied"],
    [isError |-> FALSE, message |-> ""] }

\* The catch clause clearing the error instead of setting it.
ErrorMessageCleared(caughtError) == NoError

\* caughtError instanceof Error ? caughtError.message : 'Audio capture failed.'
ErrorMessage(caughtError) ==
  IF caughtError.isError THEN caughtError.message ELSE "Audio capture failed."

\* ------------------------------------------------------------ averageBand

\* The iterations i = lo..hi of averageBand's for loop, as the sum and the
\* count they add.  Bin i of the Uint8Array is frequencyBuffer[i + 1].  The
\* range is folded by halves, which keeps the nesting of calls logarithmic in
\* the number of iterations.
RECURSIVE averageBandLoop(_, _, _)
averageBandLoop(frequencyBuffer, lo, hi) ==
  IF lo > hi THEN [sum |-> 0, count |-> 0]
  ELSE IF lo = hi THEN [sum |-> frequencyBuffer[lo + 1], count |-> 1]
  ELSE LET m == (lo + hi) \div 2
           a == averageBandLoop(frequencyBuffer, lo, m)
           b == averageBandLoop(frequencyBuffer, m + 1, hi)
       IN  [sum |-> a.sum + b.sum, count |-> a.count + b.count]

\* averageBand without the division by 255.
averageBandUnscaled(frequencyBuffer, start, end) ==
  LET last == IF end < Len(frequencyBuffer) THEN end
              ELSE Len(frequencyBuffer) - 1
      r == averageBandLoop(frequencyBuffer, start, last)
  IN  IF r.count > 0 THEN Rat(r.sum, r.count) ELSE Zero

\* averageBand dividing by the width of the window asked for, not by the
\* number of bins read.
averageBandByWidth(frequencyBuffer, start, end) ==
  LET last == IF end < Len(frequencyBuffer) THEN end
              ELSE Len(frequencyBuffer) - 1
      r == averageBandLoop(frequencyBuffer, start, last)
  IN  IF r.count > 0 THEN Rat(r.sum, (end - start + 1) * ByteMax) ELSE Zero

\* averageBand(start, end) for start >= 0: the loop runs while i <= end and
\* i < frequencyBuffer.length.
averageBand(frequencyBuffer, start, end) ==
  LET last == IF end < Len(frequencyBuffer) THEN end
              ELSE Len(frequencyBuffer) - 1
      r == averageBandLoop(frequencyBuffer, start, last)
  IN  IF r.count > 0 THEN Rat(r.sum, r.count * ByteMax) ELSE Zero

\* lerp that adds the weighted target without weighting the previous value.
lerpUnweighted(x, y, t) == RAdd(x, RMul(t, y))

\* THREE.MathUtils.lerp(x, y, t) = (1 - t) * x + t * y
lerp(x, y, t) == RAdd(RMul(RSub(One, t), x), RMul(t, y))

\* -------------------------------------------------------------- snapshots

\* A frequency snapshot with the bins lo..hi at level and the rest at 0.
Tone(lo, hi, level) ==
  [i \in 1..frequencyBinCount |-> IF lo <= i - 1 /\ i - 1 <= hi THEN level ELSE 0]

Silence == Tone(0, -1, 0)

\* What analyser.getByteFrequencyData can deliver while audio is rendered.
Snapshots ==
  { Silence,
    Tone(0, 14, ByteMax),
    Tone(16, 200, 51) }

\* ------------------------------------------------------------------ state

VARIABLES
  mounted,      \* RetroWaveVisualizer is mounted
  enabled,      \* useState(false), set by Connect and Stop
  mode,         \* useState<AudioMode>('tab'), set by the two mode buttons
  deps,         \* the [mode, enabled] the effect of useAudioBands last ran with
  current,      \* the session whose cleanup the last effect run returned, or 0
  sessions,     \* one record per effect run with enabled = true: its closure
  bands,        \* bands.current
  error,        \* the error of useState<string | null>(null)
  rafQueue,     \* the pending requestAnimationFrame(tick) callbacks
  lastFrameId,  \* the last handle requestAnimationFrame returned
  run,          \* history: per band, the current run of ticks with one target
  avg,          \* one call of averageBand: its arguments and its result
  scene         \* what the useFrame callbacks of the scene components write

vars ==
  << mounted, enabled, mode, deps, current, sessions, bands, error, rafQueue,
     lastFrameId, run, avg, scene >>

BandNames == {"bass", "mid", "treble"}

\* A session: the variables the effect body declares (audioContext, stream,
\* animationFrameId, cancelled), the place init has reached (pc), and two
\* history counters: the ticks the session has executed and the non-null
\* errors it has set.  frequencyBuffer is the Uint8Array the analyser fills
\* (zero-filled when it is created).
\*   pc: "getMedia"  awaiting getDisplayMedia / getUserMedia
\*       "resume"    awaiting audioContext.resume()
\*       "loop"      tick() has run and rescheduled itself
\*       "returned"  init returned at `if (cancelled) return`
\*       "failed"    init's catch clause ran
NewSession(m) ==
  [ mode |-> m, pc |-> "getMedia", cancelled |-> FALSE, stream |-> "none",
    audioContext |-> "suspended", animationFrameId |-> 0, ticks |-> 0,
    surfaced |-> 0, frequencyBuffer |-> Silence ]

NoRun == [session |-> 0, s0 |-> Zero, v |-> Zero, n |-> 0]
NoRuns == [b \in BandNames |-> NoRun]

\* No call of averageBand under observation.
NoCall ==
  [buffer |-> << >>, start |-> 0, end |-> 0, called |-> FALSE, result |-> Zero]

\* The scene before its first frame: the camera at the Canvas's position
\* [0, 3, 8], the refs of CameraDrift at their initial vectors, every uniform
\* at the value its material declares, the groups at y = 0, no ref attached.
\* elapsed is the clock of the render loop; it, the deltas and the two time
\* uniforms count in one unit (a sixtieth of a second).  layers is the value
\* useMemo holds for ValleyRanges, with two history counters: the runs of its
\* factory (constructions) and the renders after the first (renders).
\* shapeCalls is history: the calls of createRidgeShape under observation.
Vec(x, y, z) == [x |-> x, y |-> y, z |-> z]
LayerIndexes == 0..(LayerCount - 1)
InitScene ==
  [ attached |-> FALSE,
    elapsed |-> 0,
    backdropTime |-> 0,
    cameraPosition |-> Vec(Zero, Rat(3, 1), Rat(8, 1)),
    cameraLookAt |-> Vec(Zero, Zero, Zero),
    targetPosition |-> Vec(Zero, Rat(3, 1), Rat(8, 1)),
    lookTarget |-> Vec(Zero, Rat(9, 10), Rat(-11, 1)),
    sunBass |-> Zero,
    gridTime |-> 0,
    gridBass |-> Zero,
    gridTreble |-> Zero,
    leftY |-> [i \in LayerIndexes |-> Zero],
    rightY |-> [i \in LayerIndexes |-> Zero],
    layers |-> << >>,
    constructions |-> 0,
    renders |-> 0,
    shapeCalls |-> {} ]

InitCore ==
  /\ mounted = TRUE
  /\ enabled = FALSE
  /\ mode = "tab"
  /\ deps = [mode |-> "tab", enabled |-> FALSE]
  /\ current = 0
  /\ sessions = << >>
  /\ bands = EMPTY_BANDS
  /\ error = NoError
  /\ rafQueue = {}
  /\ lastFrameId = 0
  /\ run = NoRuns

Init ==
  /\ InitCore
  /\ avg = NoCall
  /\ scene = InitScene

\* ---------------------------------------------------------------- helpers

\* The cleanup the effect returns, on the session's closure: cancelled = true,
\* every track of the stream (if one was assigned) stopped, the context closed.
CleanupSession(sess) ==
  [ sess EXCEPT !.cancelled = TRUE,
                !.stream = IF @ = "live" THEN "stopped" ELSE @,
                !.audioContext = "closed" ]

\* if (animationFrameId) cancelAnimationFrame(animationFrameId)
CancelFrame(q, sess) ==
  IF sess.animationFrameId # 0
    THEN {f \in q : f.id # sess.animationFrameId}
    ELSE q

\* The reset branch leaving bands.current as it is.
ResetBandsSkipped == bands

\* The effect's reset branch: bands.current = { ...EMPTY_BANDS }
ResetBands == EMPTY_BANDS

\* analyser.getByteFrequencyData(frequencyBuffer): a closed context renders
\* nothing, so an analyser created on it only ever delivers zeros.
getByteFrequencyData(sess) ==
  IF sess.audioContext = "closed" THEN {Silence} ELSE Snapshots

\* Targets with the mid window starting at the first bin.
TargetsOverlapping(frequencyBuffer) ==
  [ bass |-> averageBand(frequencyBuffer, BassStart, BassEnd),
    mid |-> averageBand(frequencyBuffer, BassStart, MidEnd),
    treble |-> averageBand(frequencyBuffer, TrebleStart, TrebleEnd) ]

\* The three targets tick computes from the snapshot.
Targets(frequencyBuffer) ==
  [ bass |-> averageBand(frequencyBuffer, BassStart, BassEnd),
    mid |-> averageBand(frequencyBuffer, MidStart, MidEnd),
    treble |-> averageBand(frequencyBuffer, TrebleStart, TrebleEnd) ]

\* The three assignments of tick.
Smoothed(b, target) ==
  [ bass |-> lerp(b.bass, target.bass, SmoothFactor),
    mid |-> lerp(b.mid, target.mid, SmoothFactor),
    treble |-> lerp(b.treble, target.treble, SmoothFactor) ]

RunStep(r, s, old, target) ==
  IF r.n > 0 /\ r.session = s /\ r.v = target
    THEN [r EXCEPT !.n = @ + 1]
    ELSE [session |-> s, s0 |-> old, v |-> target, n |-> 1]

\* animationFrameId = requestAnimationFrame(tick)
RequestFrame(q, s) == q \cup {[id |-> lastFrameId + 1, session |-> s]}

\* Targets of every snapshot the model draws, computed once.
SnapshotTargets == [frequencyBuffer \in Snapshots |-> Targets(frequencyBuffer)]

\* What one execution of tick by session s writes, on snapshot
\* frequencyBuffer and with q the callbacks pending when it starts.
TickWrites(s, frequencyBuffer, q) ==
  LET target == SnapshotTargets[frequencyBuffer]
  IN  /\ bands' = Smoothed(bands, target)
      /\ lastFrameId' = lastFrameId + 1
      /\ rafQueue' = RequestFrame(q, s)
      /\ sessions' = [sessions EXCEPT ![s] =
                        [@ EXCEPT !.animationFrameId = lastFrameId + 1,
                                  !.ticks = @ + 1,
                                  !.pc = "loop",
                                  !.frequencyBuffer = frequencyBuffer,
                                  !.audioContext =
                                     IF @ = "closed" THEN @ ELSE "running"]]
      /\ run' = [b \in BandNames |-> RunStep(run[b], s, bands[b], target[b])]

\* One execution of tick, as far as the handles of requestAnimationFrame
\* are followed.
TickBody(s, frequencyBuffer, q) ==
  /\ lastFrameId < MaxFrameId
  /\ TickWrites(s, frequencyBuffer, q)

\* init's catch clause.
Catch(s, caughtError) ==
  /\ error' = ErrorMessage(caughtError)
  /\ sessions' = [sessions EXCEPT ![s] =
                    [@ EXCEPT !.pc = "failed", !.surfaced = @ + 1]]

\* ---------------------------------------------------------------- actions

\* onClick of Connect: setEnabled(true)
ClickConnect ==
  /\ mounted /\ ~enabled
  /\ enabled' = TRUE
  /\ UNCHANGED << avg, scene, mounted, mode, deps, current, sessions, bands, error,
                  rafQueue, lastFrameId, run >>

\* onClick of Stop: setEnabled(false)
ClickStop ==
  /\ mounted /\ enabled
  /\ enabled' = FALSE
  /\ UNCHANGED << avg, scene, mounted, mode, deps, current, sessions, bands, error,
                  rafQueue, lastFrameId, run >>

\* onClick of Tab Audio / Microphone: setMode(m)
ClickMode ==
  /\ mounted
  /\ \E m \in AudioModes \ {mode} : mode' = m
  /\ UNCHANGED << avg, scene, mounted, enabled, deps, current, sessions, bands, error,
                  rafQueue, lastFrameId, run >>

\* The effect of useAudioBands after a render whose [mode, enabled] differs
\* from the last run's: the previous run's cleanup, then the effect body.
RunEffect ==
  /\ mounted
  /\ deps # [mode |-> mode, enabled |-> enabled]
  /\ deps' = [mode |-> mode, enabled |-> enabled]
  /\ LET cleaned == IF current = 0 THEN sessions
                    ELSE [sessions EXCEPT ![current] = CleanupSession(@)]
         q == IF current = 0 THEN rafQueue
              ELSE CancelFrame(rafQueue, sessions[current])
     IN  /\ rafQueue' = q
         /\ IF ~enabled
              THEN /\ bands' = ResetBands
                   /\ run' = NoRuns
                   /\ sessions' = cleaned
                   /\ current' = 0
              ELSE /\ Len(sessions) < MaxSessions
                   /\ sessions' = Append(cleaned, NewSession(mode))
                   /\ current' = Len(sessions) + 1
                   /\ UNCHANGED << bands, run >>
  /\ UNCHANGED << avg, scene, mounted, enabled, mode, error, lastFrameId >>

\* The component unmounts: the last effect run's cleanup, and nothing else.
Unmount ==
  /\ mounted
  /\ mounted' = FALSE
  /\ current' = 0
  /\ sessions' = IF current = 0 THEN sessions
                 ELSE [sessions EXCEPT ![current] = CleanupSession(@)]
  /\ rafQueue' = IF current = 0 THEN rafQueue
                 ELSE CancelFrame(rafQueue, sessions[current])
  /\ UNCHANGED << avg, scene, enabled, mode, deps, bands, error, lastFrameId, run >>

\* getDisplayMedia / getUserMedia resolves: stream is assigned, then the
\* cancelled check, setError(null) and the call of audioContext.resume().
GetMediaResolve(s) ==
  /\ sessions[s].pc = "getMedia"
  /\ IF sessions[s].cancelled
       THEN /\ sessions' = [sessions EXCEPT ![s] =
                  [@ EXCEPT !.stream = "live", !.pc = "returned"]]
            /\ UNCHANGED error
       ELSE /\ sessions' = [sessions EXCEPT ![s] =
                  [@ EXCEPT !.stream = "live", !.pc = "resume"]]
            /\ error' = NoError
  /\ UNCHANGED << avg, scene, mounted, enabled, mode, deps, current, bands, rafQueue,
                  lastFrameId, run >>

\* getDisplayMedia / getUserMedia rejects: the catch clause.
GetMediaReject(s) ==
  /\ sessions[s].pc = "getMedia"
  /\ \E caughtError \in Caught : Catch(s, caughtError)
  /\ UNCHANGED << avg, scene, mounted, enabled, mode, deps, current, bands, rafQueue,
                  lastFrameId, run >>

\* audioContext.resume() resolves and createMediaStreamSource succeeds: the
\* analyser is set up and tick() is called.
ResumeResolve(s) ==
  /\ sessions[s].pc = "resume"
  /\ \E frequencyBuffer \in getByteFrequencyData(sessions[s]) :
       TickBody(s, frequencyBuffer, rafQueue)
  /\ UNCHANGED << avg, scene, mounted, enabled, mode, deps, current, error >>

\* audioContext.resume() resolves and createMediaStreamSource throws: a
\* display stream has no audio track unless the user shared audio.
CreateSourceThrows(s) ==
  /\ sessions[s].pc = "resume"
  /\ sessions[s].mode = "tab"
  /\ \E caughtError \in {c \in Caught : c.isError} : Catch(s, caughtError)
  /\ UNCHANGED << avg, scene, mounted, enabled, mode, deps, current, bands, rafQueue,
                  lastFrameId, run >>

\* audioContext.resume() rejects: the catch clause.
ResumeReject(s) ==
  /\ sessions[s].pc = "resume"
  /\ \E caughtError \in Caught : Catch(s, caughtError)
  /\ UNCHANGED << avg, scene, mounted, enabled, mode, deps, current, bands, rafQueue,
                  lastFrameId, run >>

\* The browser runs a pending requestAnimationFrame(tick) callback.
Tick(s) ==
  /\ \E f \in rafQueue :
       /\ f.session = s
       /\ \E frequencyBuffer \in getByteFrequencyData(sessions[s]) :
            TickBody(s, frequencyBuffer, rafQueue \ {f})
  /\ UNCHANGED << avg, scene, mounted, enabled, mode, deps, current, error >>

\* A track of the session's stream ends without Stop (the device is
\* unplugged, the user ends the share).  No handler is registered for it.
TrackEnded(s) ==
  /\ sessions[s].stream = "live"
  /\ ~sessions[s].cancelled
  /\ sessions' = [sessions EXCEPT ![s].stream = "ended"]
  /\ UNCHANGED << avg, scene, mounted, enabled, mode, deps, current, bands, error,
                  rafQueue, lastFrameId, run >>

Next ==
  \/ ClickConnect
  \/ ClickStop
  \/ ClickMode
  \/ RunEffect
  \/ Unmount
  \/ \E s \in DOMAIN sessions : GetMediaResolve(s)
  \/ \E s \in DOMAIN sessions : GetMediaReject(s)
  \/ \E s \in DOMAIN sessions : ResumeResolve(s)
  \/ \E s \in DOMAIN sessions : CreateSourceThrows(s)
  \/ \E s \in DOMAIN sessions : ResumeReject(s)
  \/ \E s \in DOMAIN sessions : Tick(s)

Spec == Init /\ [][Next]_vars

\* The same program with the source free to end under it.  TrackEnded writes
\* only the stream field, which no other action reads except to stop it.
NextInterrupt ==
  \/ Next
  \/ \E s \in DOMAIN sessions : TrackEnded(s)

SpecInterrupt == Init /\ [][NextInterrupt]_vars

\* ------------------------------------------------ one session, running

\* The browser runs the pending requestAnimationFrame(tick) callback of a
\* session, with the loop followed for MaxLoopTicks ticks.
LoopTick(s) ==
  /\ lastFrameId < MaxLoopTicks
  /\ \E f \in rafQueue :
       /\ f.session = s
       /\ \E frequencyBuffer \in getByteFrequencyData(sessions[s]) :
            TickWrites(s, frequencyBuffer, rafQueue \ {f})
  /\ UNCHANGED << avg, scene, mounted, enabled, mode, deps, current, error >>

\* A capture session started from the Connect button and left running.
NextLoop ==
  \/ ClickConnect
  \/ RunEffect
  \/ \E s \in DOMAIN sessions : GetMediaResolve(s)
  \/ \E s \in DOMAIN sessions : ResumeResolve(s)
  \/ \E s \in DOMAIN sessions : LoopTick(s)

SpecLoop == Init /\ [][NextLoop]_vars

\* ------------------------------------------------------------- the scene

\* The RidgeLayer ValleyRanges builds for an index, without its colours and
\* shapes.
\* Math.sin and Math.floor are not computed: the value x - Math.floor(x),
\* for x = Math.sin(seed * 12.9898) * 43758.5453123, is kept as the term of
\* the sine's argument.
pseudoRandom(seed) == [sinOf |-> RMul(seed, Rat(129898, 10000))]

\* A point of an outline at a computed height.
At(x, y) == [x |-> x, y |-> y]

\* createRidgeShape reading the clock of the render loop into its seed.
createRidgeShapeClocked(side, seed, baseY, valleyHalf, height) ==
  LET outerX == IF side = "left" THEN Rat(-14, 1) ELSE Rat(14, 1)
      valleyX == IF side = "left" THEN RNeg(valleyHalf) ELSE valleyHalf
      Sample(i) ==
        LET t == Rat(i, 10)
        IN  [ x |-> lerp(outerX, valleyX, t),
              baseY |-> baseY,
              height |-> height,
              noise |-> pseudoRandom(RAdd(RAdd(seed, Rat(scene.elapsed, 1)),
                                          RMul(Rat(i, 1), Rat(171, 10)))),
              ridgeFalloff |-> [base |-> RSub(One, t), exponent |-> Rat(8, 10)] ]
  IN  [ path |-> << At(outerX, Rat(-48, 10)),
                    At(outerX, RAdd(baseY, Rat(2, 10))) >>
                 \o [k \in 1..11 |-> Sample(k - 1)]
                 \o << At(valleyX, Rat(-48, 10)) >>,
        closed |-> TRUE ]

\* The outline createRidgeShape builds: the point of moveTo, the points of
\* the lineTo calls in order, and closePath.  A sample's height is
\* baseY + height * (0.58 + noise * 0.9) * ridgeFalloff, kept as its terms:
\* Math.pow(1 - t, 0.8) is not computed.
createRidgeShape(side, seed, baseY, valleyHalf, height) ==
  LET outerX == IF side = "left" THEN Rat(-14, 1) ELSE Rat(14, 1)
      valleyX == IF side = "left" THEN RNeg(valleyHalf) ELSE valleyHalf
      Sample(i) ==
        LET t == Rat(i, 10)
        IN  [ x |-> lerp(outerX, valleyX, t),
              baseY |-> baseY,
              height |-> height,
              noise |-> pseudoRandom(RAdd(seed, RMul(Rat(i, 1), Rat(171, 10)))),
              ridgeFalloff |-> [base |-> RSub(One, t), exponent |-> Rat(8, 10)] ]
  IN  [ path |-> << At(outerX, Rat(-48, 10)),
                    At(outerX, RAdd(baseY, Rat(2, 10))) >>
                 \o [k \in 1..11 |-> Sample(k - 1)]
                 \o << At(valleyX, Rat(-48, 10)) >>,
        closed |-> TRUE ]

\* The layer of an index at a depth (fill and stroke, two colour strings,
\* are left out).
RidgeLayer(index, depth) ==
  LET baseY == RAdd(Rat(-126, 100), RMul(depth, Rat(42, 100)))
      valleyHalf == RSub(Rat(34, 10), RMul(depth, Rat(215, 100)))
      ridgeHeight == RSub(Rat(245, 100), RMul(depth, Rat(92, 100)))
  IN  [ z |-> RSub(Rat(-85, 10), RMul(Rat(index, 1), Rat(145, 100))),
        baseY |-> baseY,
        valleyHalf |-> valleyHalf,
        ridgeHeight |-> ridgeHeight,
        motion |-> RAdd(Rat(8, 100), RMul(Rat(index, 1), Rat(6, 100))),
        leftShape |->
          createRidgeShape("left",
                           RAdd(Rat(30, 1), RMul(Rat(index, 1), Rat(123, 10))),
                           baseY, valleyHalf, ridgeHeight),
        rightShape |->
          createRidgeShape("right",
                           RAdd(Rat(70, 1), RMul(Rat(index, 1), Rat(137, 10))),
                           baseY, valleyHalf, ridgeHeight) ]

\* The layers with depth = index / 5.
LayerInFifths(index) == RidgeLayer(index, Rat(index, 5))

Layer(index) == RidgeLayer(index, Rat(index, 4))

layers == [index \in LayerIndexes |-> Layer(index)]

\* Math.sin is not computed: a frame draws the values of its sine terms, one
\* per call site, from these tables: the three of targetPosition, the one of
\* lookTarget, and the drift of each layer.
Sines ==
  { [ targetX |-> Zero, targetY |-> Zero, targetZ |-> Zero, lookX |-> Zero,
      drift |-> [i \in LayerIndexes |-> Zero] ],
    [ targetX |-> Rat(-1, 1), targetY |-> Rat(1, 2), targetZ |-> One,
      lookX |-> Rat(1, 2),
      drift |-> [i \in LayerIndexes |->
                   IF i % 2 = 1 THEN Rat(-1, 1) ELSE Rat(1, 2)] ] }

\* A frame callback that clears the bass it has consumed.
BandsAfterFrameCleared(b) == [b EXCEPT !.bass = Zero]

\* The frame callbacks never assign a field of bands.current.
BandsAfterFrame(b) == b

\* useFrame of CameraDrift.
CameraDriftFrame(sc, b, sin) ==
  LET target == Vec(RAdd(RMul(sin.targetX, Rat(35, 100)),
                         RMul(b.treble, Rat(22, 100))),
                    RAdd(RAdd(Rat(3, 1), RMul(sin.targetY, Rat(12, 100))),
                         RMul(b.bass, Rat(8, 100))),
                    RAdd(Rat(8, 1), RMul(sin.targetZ, Rat(2, 10))))
      look == Vec(RMul(sin.lookX, Rat(45, 100)),
                  RAdd(Rat(9, 10), RMul(b.bass, Rat(5, 100))),
                  Rat(-11, 1))
      alpha == Rat(5, 100)
      pos == sc.cameraPosition
  IN  [ sc EXCEPT !.targetPosition = target,
                  !.lookTarget = look,
                  !.cameraPosition =
                     Vec(RAdd(pos.x, RMul(RSub(target.x, pos.x), alpha)),
                         RAdd(pos.y, RMul(RSub(target.y, pos.y), alpha)),
                         RAdd(pos.z, RMul(RSub(target.z, pos.z), alpha))),
                  !.cameraLookAt = look ]

\* useFrame of Backdrop.
BackdropFrame(sc, t) ==
  IF ~sc.attached THEN sc ELSE [sc EXCEPT !.backdropTime = t]

\* useFrame of SettingSun.
SettingSunFrame(sc, b) ==
  IF ~sc.attached THEN sc ELSE [sc EXCEPT !.sunBass = b.bass]

\* useFrame of ValleyGrid.
ValleyGridFrame(sc, b, delta) ==
  IF ~sc.attached THEN sc
  ELSE [sc EXCEPT !.gridTime = @ + delta,
                  !.gridBass = b.bass,
                  !.gridTreble = b.treble]

\* Offsets lifted by the bass as well as the mid.
LeftOffsetWithBass(b, index, sin) ==
  LET drift == RMul(sin.drift[index], layers[index].motion)
      lift == RMul(RMul(RAdd(b.mid, b.bass), layers[index].motion),
                   Rat(65, 100))
  IN  RAdd(drift, lift)

\* The vertical offsets ValleyRanges computes for a layer.
LeftOffset(b, index, sin) ==
  LET drift == RMul(sin.drift[index], layers[index].motion)
      lift == RMul(RMul(b.mid, layers[index].motion), Rat(65, 100))
  IN  RAdd(drift, lift)

RightOffset(b, index, sin) == RMul(LeftOffset(b, index, sin), Rat(9, 10))

\* A positioning step that folds the offset into each layer's baseline.
ValleyRangesFrameBaking(sc, b, sin) ==
  IF ~sc.attached THEN sc
  ELSE [sc EXCEPT !.leftY = [i \in LayerIndexes |-> LeftOffset(b, i, sin)],
                  !.rightY = [i \in LayerIndexes |-> RightOffset(b, i, sin)],
                  !.layers = [i \in LayerIndexes |->
                                [sc.layers[i] EXCEPT !.baseY =
                                   RAdd(@, LeftOffset(b, i, sin))]]]

\* useFrame of ValleyRanges.
ValleyRangesFrame(sc, b, sin) ==
  IF ~sc.attached THEN sc
  ELSE [sc EXCEPT !.leftY = [i \in LayerIndexes |-> LeftOffset(b, i, sin)],
                  !.rightY = [i \in LayerIndexes |-> RightOffset(b, i, sin)]]

\* A render of ValleyRanges: useMemo with no dependencies runs its factory
\* on the first render and returns the stored layers on every later one.
RenderValleyRanges(sc) ==
  IF sc.constructions = 0
    THEN [sc EXCEPT !.layers = layers, !.constructions = 1]
    ELSE sc

\* The scene renders for the first time and React commits it: every
\* material and group ref is attached.
MountScene ==
  /\ ~scene.attached
  /\ scene' = [RenderValleyRanges(scene) EXCEPT !.attached = TRUE]
  /\ UNCHANGED << mounted, enabled, mode, deps, current, sessions, bands,
                  error, rafQueue, lastFrameId, run, avg >>

\* The scene renders again (a state change of RetroWaveVisualizer): the
\* ref callbacks are replaced within the commit.
Rerender ==
  /\ scene.attached
  /\ scene.renders < MaxRerenders
  /\ scene' = [RenderValleyRanges(scene) EXCEPT !.renders = @ + 1]
  /\ UNCHANGED << mounted, enabled, mode, deps, current, sessions, bands,
                  error, rafQueue, lastFrameId, run, avg >>

\* One frame of the render loop: the clock advances by delta and the
\* useFrame callbacks run in the order their components mounted.
RenderFrame ==
  /\ scene.elapsed < MaxRenderFrames
  /\ \E delta \in 1..2, sin \in Sines :
       LET t == scene.elapsed + delta
           s0 == [scene EXCEPT !.elapsed = t]
           s1 == CameraDriftFrame(s0, bands, sin)
           s2 == BackdropFrame(s1, t)
           s3 == SettingSunFrame(s2, bands)
           s4 == ValleyRangesFrame(s3, bands, sin)
           s5 == ValleyGridFrame(s4, bands, delta)
       IN  scene' = s5
  /\ bands' = BandsAfterFrame(bands)
  /\ UNCHANGED << mounted, enabled, mode, deps, current, sessions, error,
                  rafQueue, lastFrameId, run, avg >>

\* The program with its scene: a capture session started from the Connect
\* button, its extraction ticks, and the frames of the render loop.
NextFrame ==
  \/ ClickConnect
  \/ RunEffect
  \/ \E s \in DOMAIN sessions : GetMediaResolve(s)
  \/ \E s \in DOMAIN sessions : ResumeResolve(s)
  \/ \E s \in DOMAIN sessions : Tick(s)
  \/ MountScene
  \/ Rerender
  \/ RenderFrame

SpecFrame == Init /\ [][NextFrame]_vars

\* ------------------------------------------- createRidgeShape, observed

\* The arguments of two of the calls the factory of layers makes: the left
\* outline of the nearest layer and the right outline of the farthest.
ShapeArgs ==
  { [ side |-> "left", seed |-> Rat(30, 1), baseY |-> layers[0].baseY,
      valleyHalf |-> layers[0].valleyHalf, height |-> layers[0].ridgeHeight ],
    [ side |-> "right", seed |-> RAdd(Rat(70, 1), RMul(Rat(4, 1), Rat(137, 10))),
      baseY |-> layers[4].baseY, valleyHalf |-> layers[4].valleyHalf,
      height |-> layers[4].ridgeHeight ] }

\* One call of createRidgeShape, recorded with its arguments, the outline
\* it returned, and the clock and bands of the state it ran in.
CallCreateRidgeShape ==
  /\ Cardinality(scene.shapeCalls) < MaxShapeCalls
  /\ \E args \in ShapeArgs :
       scene' = [scene EXCEPT !.shapeCalls = @ \cup
                   {[ args |-> args,
                      shape |-> createRidgeShape(args.side, args.seed,
                                                 args.baseY, args.valleyHalf,
                                                 args.height),
                      elapsed |-> scene.elapsed,
                      bands |-> bands ]}]
  /\ UNCHANGED << mounted, enabled, mode, deps, current, sessions, bands,
                  error, rafQueue, lastFrameId, run, avg >>

\* Calls of createRidgeShape before and after the first extraction tick of
\* a session, the first render of the scene and the frames of the render
\* loop.
NextShape ==
  \/ ClickConnect
  \/ RunEffect
  \/ \E s \in DOMAIN sessions : GetMediaResolve(s)
  \/ \E s \in DOMAIN sessions : ResumeResolve(s)
  \/ MountScene
  \/ RenderFrame
  \/ CallCreateRidgeShape

SpecShape == Init /\ [][NextShape]_vars

\* ---------------------------------------------------- averageBand alone

ByteSamples == {0, 1, ByteMax}

RECURSIVE SeqsUpTo(_, _)
SeqsUpTo(S, n) ==
  IF n = 0 THEN {<< >>}
  ELSE LET shorter == SeqsUpTo(S, n - 1)
       IN  shorter \cup {Append(q, x) : q \in shorter, x \in S}

Buffers == SeqsUpTo(ByteSamples, MaxBufLen) \ {<< >>}

InitAvg ==
  /\ InitCore
  /\ scene = InitScene
  /\ avg \in { [ buffer |-> b, start |-> s, end |-> e, called |-> FALSE,
                   result |-> Zero ] :
                 b \in Buffers, s \in 0..MaxIndex, e \in 0..MaxIndex }

\* averageBand(start, end) is called on the buffer.
CallAverageBand ==
  /\ ~avg.called
  /\ avg' = [avg EXCEPT !.called = TRUE,
                        !.result = averageBand(avg.buffer, avg.start, avg.end)]
  /\ UNCHANGED << mounted, enabled, mode, deps, current, sessions, bands,
                  error, rafQueue, lastFrameId, run, scene >>

NextAvg == CallAverageBand

SpecAvg == InitAvg /\ [][NextAvg]_vars

\* ------------------------------------------------------------- the claims

Pending(q, s) == \E f \in q : f.session = s
CaptureStopped == ~enabled /\ ~deps.enabled

\* C1: once the cleanup of a session has run, no tick of that session
\* writes bands again.  (Stated as in the claim; the code violates it.)
C1_NoTickAfterTeardown ==
  [][\A s \in DOMAIN sessions :
       sessions[s].cancelled => sessions'[s].ticks = sessions[s].ticks]_vars

\* C2: while capture is stopped (enabled is false and the effect has run for
\* it) bands is all zero, and bands leaves all-zero only by a tick of a
\* session that has not been torn down.
C2_IdleDecay ==
  /\ [](CaptureStopped => bands = EMPTY_BANDS)
  /\ [][(bands = EMPTY_BANDS /\ bands' # EMPTY_BANDS) =>
          \E s \in DOMAIN sessions :
            /\ ~sessions'[s].cancelled
            /\ sessions'[s].ticks = sessions[s].ticks + 1]_vars

\* C2's case: capture is stopped, bands is zero, and a session torn down
\* while resume() was pending has completed its init and is ticking.
C2_Witness ==
  /\ CaptureStopped
  /\ bands = EMPTY_BANDS
  /\ \E s \in DOMAIN sessions :
       sessions[s].cancelled /\ sessions[s].ticks > 0 /\ Pending(rafQueue, s)

\* C3: after a teardown with enabled still true (a mode switch), bands is
\* all zero until the new session's first tick.  (Stated as in the claim;
\* the code violates it.)
C3_TeardownResets ==
  ( /\ mounted /\ enabled
    /\ deps = [mode |-> mode, enabled |-> enabled]
    /\ current # 0
    /\ sessions[current].ticks = 0 )
  => bands = EMPTY_BANDS

\* C4: a session that was torn down and whose init has ended holds no
\* stream with live tracks, and its context is closed.  (Stated as in the
\* claim; the code violates it.)
C4_ReleasedOnExit ==
  \A s \in DOMAIN sessions :
    (sessions[s].cancelled /\ sessions[s].pc \in {"returned", "failed"})
      => (sessions[s].stream # "live" /\ sessions[s].audioContext = "closed")

\* C5: a session whose init failed has set exactly one error and has never
\* ticked nor scheduled a tick, no other session has set an error, and the
\* step in which init fails sets a non-null error and leaves bands as it was.
C5_AcquisitionFailure ==
  /\ [](\A s \in DOMAIN sessions :
          IF sessions[s].pc = "failed"
            THEN /\ sessions[s].surfaced = 1
                 /\ sessions[s].ticks = 0
                 /\ sessions[s].animationFrameId = 0
                 /\ ~Pending(rafQueue, s)
            ELSE sessions[s].surfaced = 0)
  /\ [][\A s \in DOMAIN sessions :
          (sessions[s].pc # "failed" /\ sessions'[s].pc = "failed")
            => (error' # NoError /\ bands' = bands)]_vars

\* C5's case: a session has failed after bands had been driven off zero.
C5_Witness ==
  /\ bands # EMPTY_BANDS
  /\ error # NoError
  /\ \E s \in DOMAIN sessions :
       sessions[s].pc = "failed" /\ sessions[s].stream = "live"

\* C6: a tick that runs after a track of its session's stream has ended
\* schedules no successor.  (Stated as in the claim; the code violates it.)
C6_InterruptStopsLoop ==
  [][\A s \in DOMAIN sessions :
       (sessions[s].stream = "ended" /\ sessions'[s].ticks > sessions[s].ticks)
         => ~Pending(rafQueue', s)]_vars

\* C7: a step that writes the scene (a frame of the render loop) leaves
\* bands unchanged, and a step that changes bands is a tick of a session.
C7_SingleWriter ==
  [][/\ scene' # scene => bands' = bands
     /\ bands' # bands =>
          \E s \in DOMAIN sessions :
            sessions'[s].ticks = sessions[s].ticks + 1]_vars

\* C7's case: a frame has consumed a non-zero bass and a later tick has
\* moved bands on.
C7_Witness ==
  /\ scene.elapsed > 0
  /\ scene.sunBass # Zero
  /\ scene.sunBass # bands.bass
  /\ scene.leftY[1] # Zero

\* C8: each of bass, mid and treble lies in [0, 1].
C8_Range ==
  \A b \in BandNames : RLe(Zero, bands[b]) /\ RLe(bands[b], One)

\* C8's case: two ticks have driven a band above zero, up to a target of 1.
C8_Witness ==
  /\ RLt(Zero, bands.bass)
  /\ run.bass.n >= 2 /\ run.bass.v = One

\* C9: over a run of N consecutive ticks of one session with the same
\* target v from s0, |s_N - v| = |s0 - v| * (1 - 0.2)^N for each band, and
\* every tick moves each band between its old value and the target.
C9_Convergence ==
  /\ [](\A b \in BandNames :
          run[b].n > 0 =>
            RAbs(RSub(bands[b], run[b].v)) =
              RMul(RAbs(RSub(run[b].s0, run[b].v)),
                   RPow(RSub(One, Rat(2, 10)), run[b].n)))
  /\ [][\A b \in BandNames :
          (run'[b] # run[b] /\ run'[b].n > 0) =>
            \/ RLe(bands[b], bands'[b]) /\ RLe(bands'[b], run'[b].v)
            \/ RLe(run'[b].v, bands'[b]) /\ RLe(bands'[b], bands[b])]_vars

\* C9's case: a run of at least two ticks toward a target other than the
\* value it started from.
C9_Witness ==
  \E b \in BandNames : run[b].n >= 2 /\ run[b].v # run[b].s0

\* The bins averageBand is to average: start..min(end, length - 1).
EffectiveRange(buffer, start, end) ==
  {i \in 0..(Len(buffer) - 1) : start <= i /\ i <= end}

RECURSIVE SumOver(_, _)
SumOver(buffer, S) ==
  IF S = {} THEN 0
  ELSE LET i == CHOOSE j \in S : TRUE
       IN  buffer[i + 1] + SumOver(buffer, S \ {i})

\* C10: averageBand returns the mean of the bins of the effective range
\* divided by 255, a value in [0, 1], and 0 when the range is empty.
C10_AverageBand ==
  avg.called =>
    LET S == EffectiveRange(avg.buffer, avg.start, avg.end)
    IN  /\ RLe(Zero, avg.result) /\ RLe(avg.result, One)
        /\ IF S = {}
             THEN avg.result = Zero
             ELSE avg.result.n * (Cardinality(S) * 255) =
                    SumOver(avg.buffer, S) * avg.result.d

\* C10's case: a call whose end lies beyond the buffer, on bins that are not
\* all zero.
C10_Witness ==
  /\ avg.called
  /\ avg.start < Len(avg.buffer) /\ avg.end >= Len(avg.buffer)
  /\ avg.result # Zero /\ avg.result # One

\* The sum of the bins lo..hi of a snapshot, level by level.
RECURSIVE LevelSum(_, _, _, _)
LevelSum(buffer, lo, hi, levels) ==
  IF levels = {} THEN 0
  ELSE LET v == CHOOSE x \in levels : TRUE
       IN  v * Cardinality({i \in lo..hi : buffer[i + 1] = v})
             + LevelSum(buffer, lo, hi, levels \ {v})

\* The mean of the bins lo..hi of a full-length snapshot, over 255.
WindowMean(buffer, lo, hi) ==
  Rat(LevelSum(buffer, lo, hi, {buffer[i + 1] : i \in lo..hi}),
      (hi - lo + 1) * 255)

WindowOf ==
  [ bass |-> [lo |-> 0, hi |-> 14],
    mid |-> [lo |-> 18, hi |-> 70],
    treble |-> [lo |-> 90, hi |-> 180] ]

\* The mean of each band's window, for every snapshot the analyser delivers.
WindowMeans ==
  [buffer \in Snapshots |->
     [b \in BandNames |-> WindowMean(buffer, WindowOf[b].lo, WindowOf[b].hi)]]

\* Bins 0-14 all at 255, bins 18-70 and 90-180 all at 0.
BassOnly(buffer) ==
  /\ \A i \in 0..14 : buffer[i + 1] = 255
  /\ \A i \in (18..70) \cup (90..180) : buffer[i + 1] = 0

BassOnlySnapshots == {buffer \in Snapshots : BassOnly(buffer)}

\* C11: band separation end to end.  The three windows are pairwise disjoint
\* and inside the 256-bin buffer.  Every extraction tick moves each band a
\* fifth of the way to the mean of the bins of that band's own window (over
\* 255) and of nothing else: a band whose window holds no energy only decays,
\* from 0 it stays 0, and bins outside the three windows enter no band.  On
\* a snapshot with bins 0-14 at 255 and bins 18-70 and 90-180 at 0, one tick
\* from the all-zero state yields bass = 0.2, mid = 0, treble = 0, and ten
\* such ticks yield bass = 1 - 0.8^10 with mid and treble still 0.
C11_BandSeparation ==
  /\ [](/\ \A a, b \in BandNames :
             a # b => (WindowOf[a].lo..WindowOf[a].hi)
                        \cap (WindowOf[b].lo..WindowOf[b].hi) = {}
        /\ \A b \in BandNames :
             0 <= WindowOf[b].lo /\ WindowOf[b].hi < frequencyBinCount
        /\ \A s \in DOMAIN sessions :
             ( /\ sessions[s].frequencyBuffer \in BassOnlySnapshots
               /\ \A b \in BandNames :
                    run[b].session = s /\ run[b].n = 10 /\ run[b].s0 = Zero )
             => bands = [ bass |-> RSub(One, RPow(Rat(8, 10), 10)),
                          mid |-> Zero, treble |-> Zero ])
  /\ [][\A s \in DOMAIN sessions :
          sessions'[s].ticks = sessions[s].ticks + 1 =>
            LET buffer == sessions'[s].frequencyBuffer
            IN  /\ \A b \in BandNames :
                     bands'[b] =
                       RAdd(bands[b],
                            RMul(RSub(WindowMeans[buffer][b], bands[b]),
                                 Rat(2, 10)))
                /\ \A b \in BandNames :
                     (\A i \in WindowOf[b].lo..WindowOf[b].hi :
                        buffer[i + 1] = 0)
                     => bands'[b] = RMul(Rat(8, 10), bands[b])
                /\ (buffer \in BassOnlySnapshots /\ bands = EMPTY_BANDS)
                   => bands' = [ bass |-> Rat(2, 10), mid |-> Zero,
                                 treble |-> Zero ]]_vars

\* Ten ticks on the bass-only snapshot, counted from the all-zero state.
C11_Witness ==
  \E s \in DOMAIN sessions :
    /\ sessions[s].frequencyBuffer \in BassOnlySnapshots
    /\ \A b \in BandNames :
         run[b].session = s /\ run[b].n = 10 /\ run[b].s0 = Zero
    /\ bands = [ bass |-> Rat(8717049, 9765625), mid |-> Zero, treble |-> Zero ]

\* C12: offset asymmetry.  On every render tick that finds the groups
\* attached, and for every layer index 0..4, the left group's y is
\* drift + lift, with drift = sin(...) * layer.motion for the sines of that
\* tick and lift = AudioBands.mid * layer.motion * 0.65 (bass and treble do
\* not enter), and the right group's y written in the same tick is the left
\* one times 0.9.
C12_OffsetAsymmetry ==
  [][(scene.attached /\ scene'.elapsed # scene.elapsed) =>
       \E sin \in Sines :
         \A index \in 0..4 :
           LET motion == scene.layers[index].motion
               drift == RMul(sin.drift[index], motion)
               lift == RMul(RMul(bands.mid, motion), Rat(65, 100))
           IN  /\ scene'.leftY[index] = RAdd(drift, lift)
               /\ scene'.rightY[index] =
                    RMul(scene'.leftY[index], Rat(9, 10))]_vars

\* A frame has positioned the groups while bass, mid and treble were all
\* non-zero and the sines were not: left and right differ.
C12_Witness ==
  /\ scene.attached /\ scene.elapsed > 0
  /\ bands.bass # Zero /\ bands.mid # Zero /\ bands.treble # Zero
  /\ \E sin \in Sines :
       /\ sin.drift[4] # Zero
       /\ scene.leftY[4] =
            RAdd(RMul(sin.drift[4], scene.layers[4].motion),
                 RMul(RMul(bands.mid, scene.layers[4].motion), Rat(65, 100)))
  /\ scene.rightY[4] # scene.leftY[4]

LayerFields ==
  {"z", "baseY", "valleyHalf", "ridgeHeight", "motion", "leftShape",
   "rightShape"}

\* C13: terrain immutability.  The five layers are constructed exactly once
\* (the factory of useMemo runs on the first render of ValleyRanges and on no
\* later one), and no step after that, a per-frame positioning step for any
\* elapsed time and any AudioBands value included, changes a field of a layer
\* (z, baseY, valleyHalf, ridgeHeight, motion, leftShape, rightShape): the
\* positioning step changes only the y of the left and right groups.
C13_TerrainImmutable ==
  /\ [](/\ scene.constructions <= 1
        /\ scene.attached =>
             /\ scene.constructions = 1
             /\ DOMAIN scene.layers = 0..4
             /\ \A sin \in Sines :
                  LET positioned == ValleyRangesFrame(scene, bands, sin)
                  IN  /\ \A index \in 0..4, field \in LayerFields :
                           positioned.layers[index][field]
                             = scene.layers[index][field]
                      /\ [positioned EXCEPT !.leftY = scene.leftY,
                                            !.rightY = scene.rightY] = scene)
  /\ [][scene.attached =>
          \A index \in 0..4, field \in LayerFields :
            scene'.layers[index][field] = scene.layers[index][field]]_vars

\* Frames have moved the groups, under non-zero bands and after a second
\* render, and the farthest layer still has the baseline it was built with.
C13_Witness ==
  /\ scene.attached /\ scene.elapsed >= 2 /\ scene.renders >= 1
  /\ bands.mid # Zero
  /\ scene.leftY[4] # Zero /\ scene.rightY[4] # Zero
  /\ scene.constructions = 1
  /\ scene.layers[4].baseY = Rat(-84, 100)

\* C14: depth monotonicity.  Over the five constructed layers, for every
\* pair of indices i < j, valleyHalf(i) > valleyHalf(j), ridgeHeight(i) >
\* ridgeHeight(j) and motion(i) < motion(j); with depth = index / 4,
\* valleyHalf interpolates from 3.4 down to 1.25 and ridgeHeight from 2.45
\* down to 1.53, and motion = 0.08 + index * 0.06.
C14_DepthMonotone ==
  scene.constructions > 0 =>
    /\ DOMAIN scene.layers = 0..4
    /\ \A i, j \in 0..4 :
         i < j =>
           /\ RLt(scene.layers[j].valleyHalf, scene.layers[i].valleyHalf)
           /\ RLt(scene.layers[j].ridgeHeight, scene.layers[i].ridgeHeight)
           /\ RLt(scene.layers[i].motion, scene.layers[j].motion)
    /\ \A index \in 0..4 :
         LET depth == Rat(index, 4)
         IN  /\ scene.layers[index].valleyHalf
                  = RAdd(RMul(RSub(One, depth), Rat(340, 100)),
                         RMul(depth, Rat(125, 100)))
             /\ scene.layers[index].ridgeHeight
                  = RAdd(RMul(RSub(One, depth), Rat(245, 100)),
                         RMul(depth, Rat(153, 100)))
             /\ scene.layers[index].motion
                  = Rat(8 + index * 6, 100)

\* The layers are constructed: the nearest has the widest valley, the
\* farthest the narrowest.
C14_Witness ==
  /\ scene.constructions > 0
  /\ scene.layers[0].valleyHalf = Rat(34, 10)
  /\ scene.layers[4].valleyHalf = Rat(125, 100)
  /\ scene.layers[0].ridgeHeight = Rat(245, 100)
  /\ scene.layers[4].ridgeHeight = Rat(153, 100)

C16_SingleLoop == Cardinality(rafQueue) <= 1

\* C17: the error state is changed only by the current, non-cancelled
\* session: a step that changes the error is a step of a session whose
\* cleanup has not run, so a late rejection or a late success of a cleaned-up
\* session's acquisition never sets or clears the error, and after Stop no
\* new error appears.  (Taken while the component is mounted: React drops
\* the state updates of an unmounted component.)
C17_ErrorFromCurrentOnly ==
  [][(mounted' /\ error' # error) =>
       \E s \in DOMAIN sessions :
         /\ s = current
         /\ ~sessions[s].cancelled
         /\ sessions'[s] # sessions[s]]_vars

====
